---- MODULE Spec2Model ----
(***************************************************************************)
(* A model of the conversation core of waifubeetle2:                       *)
(*   - AsyncLLM.chat_completion (openai_compatible_llm.py), the streaming  *)
(*     aggregator with its shared support_tools flag;                      *)
(*   - clean_response and process_single_conversation                      *)
(*     (single_conversation.py), the turn controller.                      *)
(* Text is a sequence of one-character strings.  An optional string (a     *)
(* tool call's id, type or function name) is a string, None standing for   *)
(* Python's None.  A text delta or an arguments fragment that is None or   *)
(* "" is the empty sequence: the code only tests their truthiness.         *)
(***************************************************************************)
EXTENDS Integers, Sequences, FiniteSets, TLC

\* ------------------------------------------------------------------ bounds
\* Length of the texts clean_response is applied to (SpecClean).
MaxTextLen == 4
\* Chunks one chat_completion call reads from its stream (SpecCall).
MaxChunks == 3
\* Chunks one call reads when two calls share the instance (SpecLLM).
MaxConcChunks == 2
\* chat_completion calls started on one AsyncLLM instance.
MaxCalls == 2
\* Items the agent yields in one turn.
MaxItems == 2

\* ------------------------------------------------------------ value model
None == "None"

\* Python truthiness of an optional string.
Truthy(v) == v # None /\ v # ""

NOT_GIVEN == "NOT_GIVEN"

\* ------------------------------------------------ AsyncLLM.chat_completion

\* The two generator slots that may run chat_completion on one instance.
Slots == {1, 2}

\* A tool-call fragment of a chunk (ChoiceDeltaToolCall): hasfn says whether
\* its function attribute is set.
Frag(i, id, ty, hasfn, name, args) ==
    [index |-> i, id |-> id, type |-> ty, hasfn |-> hasfn, name |-> name,
     arguments |-> args]

\* A chunk: choices is len(chunk.choices); content and tool_calls are those
\* of chunk.choices[0].delta (tool_calls None or [] is the empty sequence).
TextChunk(content) == [choices |-> 1, content |-> content, tool_calls |-> <<>>]
ToolChunk(content, frags) == [choices |-> 1, content |-> content, tool_calls |-> frags]
NoChoiceChunk == [choices |-> 0, content |-> <<>>, tool_calls |-> <<>>]

HeadFrag(i) == Frag(i, "id1", "function", TRUE, "f", <<>>)
OtherHeadFrag(i) == Frag(i, "id2", None, TRUE, "g", <<"x">>)
ArgsFrag(i) == Frag(i, None, None, TRUE, None, <<"x">>)
EmptyFrag(i) == Frag(i, "", "", TRUE, "", <<"y">>)
BareFrag(i) == Frag(i, None, None, FALSE, None, <<>>)

\* The chunks a backend may stream to a single call.
Chunks ==
    {ToolChunk(<<>>, <<f>>) :
        f \in {HeadFrag(0), OtherHeadFrag(0), ArgsFrag(0), EmptyFrag(0),
               ArgsFrag(1)}}
    \cup {ToolChunk(<<"a">>, <<BareFrag(0), ArgsFrag(1)>>)}
    \cup {TextChunk(<<"a">>), NoChoiceChunk}

\* The chunks a backend may stream when two calls share the instance.
ConcChunks == {ToolChunk(<<>>, <<ArgsFrag(0)>>)}

\* What the caller passes as tools.
ToolArgs == {NOT_GIVEN, "tools"}

\* The exceptions create() or the stream may raise: APIConnectionError,
\* RateLimitError, an APIError saying the model does not support tools,
\* another APIError, and an exception that is no APIError.
FaultKinds == {"connection", "ratelimit", "capability", "api", "other"}

\* Those an except clause of chat_completion names.
HandledKinds == FaultKinds \ {"other"}

\* The faults looked at when two calls share the instance.
ConcFaultKinds == {"capability", "api"}

VARIABLES
    support_tools,          \* self.support_tools
    ncalls,                 \* calls started on the instance so far
    lpc,                    \* per slot: idle, create, iter, yielded, closing, done
    stream,                 \* per slot: "none", "open", "closed"
    accumulated_tool_calls, \* per slot: records in insertion order
    in_tool_call,           \* per slot
    final_text,             \* per slot
    available_tools,        \* per slot: the tools of the request sent
    yielded,                \* per slot: the items yielded to the consumer
    outcome,                \* per slot: how the call ended
    closes,                 \* per slot: stream.close() calls
    delivered,              \* per slot: the chunks the stream has delivered
    merged,                 \* per slot: the fragments handed to the accumulator
    flagAtStart,            \* per slot: support_tools when the call started
    flagHeld,               \* per slot: support_tools was true all along
    passed_tools,           \* per slot: the tools the caller passed
    capFaults               \* capability faults handled on the instance

\* One turn of process_single_conversation.
VARIABLES
    pc,                 \* the await the turn is suspended at, or "done"
    status,             \* running, returned, cancelled, failed
    history_uid,        \* whether context.history_uid is set
    skip_history,       \* metadata's skip_history
    input_text,
    full_response,
    cleaned_response,
    task_list,          \* tts_manager.task_list: the state of each job
    events,             \* what websocket_send has delivered, in order
    history,            \* what store_message has appended, in order
    cleanups,           \* calls of cleanup_conversation
    consumed,           \* items taken from the agent stream
    inner,              \* what is left of the item being iterated
    pending,            \* the tool-call status being sent
    caught,             \* exceptions the drain handler has caught
    error_message,      \* str(e) of the exception caught
    textAtFault,        \* full_response when the exception was caught
    consumedAtFault,    \* consumed when the exception was caught
    returned,           \* the value the turn returned
    leftAt,             \* the await the turn left from
    cancelled_at,       \* the await a cancellation was delivered at
    tts_text,           \* the tts_text given to tts_manager.speak
    http_status,        \* per job: the status the speech backend answered
    cleanup_kind        \* what cleanup_conversation did with the jobs

\* A second invocation of process_single_conversation for the same client.
VARIABLES
    other_pc,           \* none, start, input, done
    other_cleanups      \* its calls of cleanup_conversation

\* clean_response applied to a text, and to its own result.
VARIABLES
    cr_pc,              \* how often clean_response has been applied
    cr_text,            \* the text given
    cr_once,            \* clean_response(cr_text)
    cr_twice            \* clean_response(cr_once)

turnVars ==
    <<pc, status, history_uid, skip_history, input_text, full_response,
      cleaned_response, task_list, events, history, cleanups, consumed, inner,
      pending, caught, error_message, textAtFault, consumedAtFault, returned,
      leftAt, cancelled_at, tts_text, http_status, cleanup_kind>>

sessionVars == <<other_pc, other_cleanups>>

cleanVars == <<cr_pc, cr_text, cr_once, cr_twice>>

llmVars ==
    <<support_tools, ncalls, lpc, stream, accumulated_tool_calls, in_tool_call,
      final_text, available_tools, yielded, outcome, closes, delivered, merged,
      flagAtStart, flagHeld, passed_tools, capFaults>>

\* The locals of a call as chat_completion sets them on entry.
InitLLM ==
    /\ support_tools = TRUE
    /\ ncalls = 0
    /\ lpc = [c \in Slots |-> "idle"]
    /\ stream = [c \in Slots |-> "none"]
    /\ accumulated_tool_calls = [c \in Slots |-> <<>>]
    /\ in_tool_call = [c \in Slots |-> FALSE]
    /\ final_text = [c \in Slots |-> <<>>]
    /\ available_tools = [c \in Slots |-> NOT_GIVEN]
    /\ yielded = [c \in Slots |-> <<>>]
    /\ outcome = [c \in Slots |-> "none"]
    /\ closes = [c \in Slots |-> 0]
    /\ delivered = [c \in Slots |-> <<>>]
    /\ merged = [c \in Slots |-> <<>>]
    /\ flagAtStart = [c \in Slots |-> TRUE]
    /\ flagHeld = [c \in Slots |-> TRUE]
    /\ passed_tools = [c \in Slots |-> NOT_GIVEN]
    /\ capFaults = 0

\* available_tools = tools if self.support_tools else NOT_GIVEN
AvailableTools(tools, flag) == IF flag THEN tools ELSE NOT_GIVEN

\* The accumulator: a dict keyed by index, kept as its records in insertion
\* order (the order of accumulated_tool_calls.values()).
HasIndex(acc, i) == \E k \in 1..Len(acc) : acc[k].index = i
PosOf(acc, i) == CHOOSE k \in 1..Len(acc) : acc[k].index = i

\* The record a first fragment of an index creates.
NewRecord(tc) ==
    [index |-> tc.index, id |-> tc.id, type |-> tc.type,
     function |-> [name |-> "", arguments |-> <<>>]]

\* if getattr(tool_call, "id", None): record["id"] = tool_call.id
MergeId(old, new) == IF Truthy(new) THEN new ELSE old
\* if getattr(tool_call, "type", None): record["type"] = tool_call.type
MergeType(old, new) == IF Truthy(new) THEN new ELSE old
\* if getattr(tool_call.function, "name", None): record name = it
MergeName(old, new) == IF Truthy(new) THEN new ELSE old
\* if getattr(tool_call.function, "arguments", None): record arguments += it
MergeArgumentsReplacing(old, new) == IF new # <<>> THEN new ELSE old
MergeArguments(old, new) == IF new # <<>> THEN old \o new ELSE old

MergeFunction(fn, tc) ==
    IF tc.hasfn
    THEN [name |-> MergeName(fn.name, tc.name),
          arguments |-> MergeArguments(fn.arguments, tc.arguments)]
    ELSE fn

\* One pass of the loop over chunk.choices[0].delta.tool_calls.
MergeToolCall(acc, tc) ==
    LET acc1 == IF HasIndex(acc, tc.index) THEN acc ELSE Append(acc, NewRecord(tc))
        k == PosOf(acc1, tc.index)
        r == acc1[k]
    IN  [acc1 EXCEPT ![k] =
            [index |-> r.index, id |-> MergeId(r.id, tc.id),
             type |-> MergeType(r.type, tc.type),
             function |-> MergeFunction(r.function, tc)]]

RECURSIVE MergeToolCalls(_, _)
MergeToolCalls(acc, tcs) ==
    IF tcs = <<>> THEN acc
    ELSE MergeToolCalls(MergeToolCall(acc, Head(tcs)), Tail(tcs))

\* Whether the body of the loop raises on this chunk: chunk.choices[0] of
\* a chunk without choices, reached only while support_tools is true.
ChunkRaises(flag, ch) == flag /\ ch.choices = 0

\* Whether the chunk goes to the accumulator (has_tool_calls under the flag).
TakesToolCalls(flag, ch) == flag /\ ch.choices > 0 /\ ch.tool_calls # <<>>

\* Whether the chunk's content is added to final_text.
TakesText(flag, ch) ==
    ~TakesToolCalls(flag, ch) /\ ch.choices > 0 /\ ch.content # <<>>

\* ToolCallObject.from_dict keeps the fields of the record.
FromDict(r) == r

\* The item the end of the stream yields.
YieldsToolCalls(in_tc, acc) == in_tc /\ acc # <<>>
FinalItemPreferringText(in_tc, acc, text) ==
    IF YieldsToolCalls(in_tc, acc) /\ text = <<>>
    THEN [kind |-> "tools", text |-> <<>>,
          tools |-> [k \in 1..Len(acc) |-> FromDict(acc[k])]]
    ELSE [kind |-> "text", text |-> text, tools |-> <<>>]
FinalItem(in_tc, acc, text) ==
    IF YieldsToolCalls(in_tc, acc)
    THEN [kind |-> "tools", text |-> <<>>,
          tools |-> [k \in 1..Len(acc) |-> FromDict(acc[k])]]
    ELSE [kind |-> "text", text |-> text, tools |-> <<>>]

\* The item an except clause yields for a handled fault.
FaultItemAsSentinel(k) ==
    [kind |-> CASE k = "connection" -> "error_connection"
                [] k \in {"ratelimit", "capability"} -> "__API_NOT_SUPPORT_TOOLS__"
                [] OTHER -> "error_api",
     text |-> <<>>, tools |-> <<>>]
FaultItem(k) ==
    [kind |-> CASE k = "connection" -> "error_connection"
                [] k = "ratelimit" -> "error_ratelimit"
                [] k = "capability" -> "__API_NOT_SUPPORT_TOOLS__"
                [] OTHER -> "error_api",
     text |-> <<>>, tools |-> <<>>]

\* finally: if stream: await stream.close().  With a stream the call is
\* suspended at that await until close() returns; without one it has ended.
ClosesInFinally(st) == IF st = "none" THEN 0 ELSE 1
AfterFinallyEntry(st) == IF st = "none" THEN "done" ELSE "closing"
StreamAfterFinally(st) == IF st = "none" THEN "none" ELSE "closed"

\* Lines 70-95: the locals are reset, the flag is read and the request is
\* sent; the call then waits for create() to answer.
Start(c, tools) ==
    /\ lpc[c] \in {"idle", "done"}
    /\ ncalls < MaxCalls
    /\ ncalls' = ncalls + 1
    /\ lpc' = [lpc EXCEPT ![c] = "create"]
    /\ stream' = [stream EXCEPT ![c] = "none"]
    /\ accumulated_tool_calls' = [accumulated_tool_calls EXCEPT ![c] = <<>>]
    /\ in_tool_call' = [in_tool_call EXCEPT ![c] = FALSE]
    /\ final_text' = [final_text EXCEPT ![c] = <<>>]
    /\ available_tools' =
          [available_tools EXCEPT ![c] = AvailableTools(tools, support_tools)]
    /\ yielded' = [yielded EXCEPT ![c] = <<>>]
    /\ outcome' = [outcome EXCEPT ![c] = "none"]
    /\ closes' = [closes EXCEPT ![c] = 0]
    /\ delivered' = [delivered EXCEPT ![c] = <<>>]
    /\ merged' = [merged EXCEPT ![c] = <<>>]
    /\ flagAtStart' = [flagAtStart EXCEPT ![c] = support_tools]
    /\ flagHeld' = [flagHeld EXCEPT ![c] = support_tools]
    /\ passed_tools' = [passed_tools EXCEPT ![c] = tools]
    /\ UNCHANGED <<support_tools, capFaults>>
    /\ UNCHANGED <<turnVars, sessionVars, cleanVars>>

\* Lines 87-100: create() returns the stream and the loop asks for a chunk.
CreateOk(c) ==
    /\ lpc[c] = "create"
    /\ lpc' = [lpc EXCEPT ![c] = "iter"]
    /\ stream' = [stream EXCEPT ![c] = "open"]
    /\ UNCHANGED <<support_tools, ncalls, accumulated_tool_calls, in_tool_call,
                   final_text, available_tools, yielded, outcome, closes,
                   delivered, merged, flagAtStart, flagHeld, passed_tools,
                   capFaults>>
    /\ UNCHANGED <<turnVars, sessionVars, cleanVars>>

\* Lines 100-131: the stream delivers a chunk and the loop body runs on it,
\* reading self.support_tools as it is now.  A chunk the body raises on
\* takes the call into the finally block.
RecvChunk(c, ch, max) ==
    /\ lpc[c] = "iter"
    /\ Len(delivered[c]) < max
    /\ delivered' = [delivered EXCEPT ![c] = Append(@, ch)]
    /\ IF ChunkRaises(support_tools, ch)
       THEN /\ lpc' = [lpc EXCEPT ![c] = AfterFinallyEntry(stream[c])]
            /\ outcome' = [outcome EXCEPT ![c] = "raised"]
            /\ closes' = [closes EXCEPT ![c] = @ + ClosesInFinally(stream[c])]
            /\ UNCHANGED <<accumulated_tool_calls, in_tool_call, final_text,
                           merged, stream>>
       ELSE /\ IF TakesToolCalls(support_tools, ch)
               THEN /\ in_tool_call' = [in_tool_call EXCEPT ![c] = TRUE]
                    /\ accumulated_tool_calls' =
                          [accumulated_tool_calls EXCEPT
                             ![c] = MergeToolCalls(@, ch.tool_calls)]
                    /\ merged' = [merged EXCEPT ![c] = @ \o ch.tool_calls]
                    /\ UNCHANGED final_text
               ELSE /\ final_text' =
                          [final_text EXCEPT
                             ![c] = IF TakesText(support_tools, ch)
                                    THEN @ \o ch.content ELSE @]
                    /\ UNCHANGED <<in_tool_call, accumulated_tool_calls, merged>>
            /\ UNCHANGED <<lpc, outcome, closes, stream>>
    /\ UNCHANGED <<support_tools, ncalls, available_tools, yielded, flagAtStart,
                   flagHeld, passed_tools, capFaults>>
    /\ UNCHANGED <<turnVars, sessionVars, cleanVars>>

\* Lines 133-142: the stream is exhausted and the result is yielded.
StreamEnd(c) ==
    /\ lpc[c] = "iter"
    /\ lpc' = [lpc EXCEPT ![c] = "yielded"]
    /\ yielded' =
          [yielded EXCEPT
             ![c] = Append(@, FinalItem(in_tool_call[c],
                                        accumulated_tool_calls[c], final_text[c]))]
    /\ UNCHANGED <<support_tools, ncalls, stream, accumulated_tool_calls,
                   in_tool_call, final_text, available_tools, outcome, closes,
                   delivered, merged, flagAtStart, flagHeld, passed_tools,
                   capFaults>>
    /\ UNCHANGED <<turnVars, sessionVars, cleanVars>>

\* The flag after an except clause has handled fault k (line 154).
FlagAfterAnyApiError(flag, k) == IF k \in {"capability", "api"} THEN FALSE ELSE flag
FlagAfterFault(flag, k) == IF k = "capability" THEN FALSE ELSE flag

\* Lines 144-158: create() or the stream raises an error of the openai
\* client; its except clause yields one item.
HandledFault(c, k) ==
    /\ lpc[c] \in {"create", "iter"}
    /\ k \in HandledKinds
    /\ lpc' = [lpc EXCEPT ![c] = "yielded"]
    /\ yielded' = [yielded EXCEPT ![c] = Append(@, FaultItem(k))]
    /\ outcome' = [outcome EXCEPT ![c] = k]
    /\ support_tools' = FlagAfterFault(support_tools, k)
    /\ capFaults' = IF k = "capability" THEN capFaults + 1 ELSE capFaults
    /\ flagHeld' = [d \in Slots |-> flagHeld[d] /\ FlagAfterFault(support_tools, k)]
    /\ UNCHANGED <<ncalls, stream, accumulated_tool_calls, in_tool_call,
                   final_text, available_tools, closes, delivered, merged,
                   flagAtStart, passed_tools>>
    /\ UNCHANGED <<turnVars, sessionVars, cleanVars>>

\* Lines 160-162 alone: an exception no except clause names, or the
\* cancellation of the awaiting task, enters the finally block.
Propagates(c, how) ==
    /\ lpc[c] \in {"create", "iter"}
    /\ how \in {"raised", "cancelled"}
    /\ lpc' = [lpc EXCEPT ![c] = AfterFinallyEntry(stream[c])]
    /\ outcome' = [outcome EXCEPT ![c] = how]
    /\ closes' = [closes EXCEPT ![c] = @ + ClosesInFinally(stream[c])]
    /\ UNCHANGED <<support_tools, ncalls, stream, accumulated_tool_calls,
                   in_tool_call, final_text, available_tools, yielded, delivered,
                   merged, flagAtStart, flagHeld, passed_tools, capFaults>>
    /\ UNCHANGED <<turnVars, sessionVars, cleanVars>>

\* The consumer asks for the next item (the generator runs on from its
\* yield and ends), closes the generator at its yield, or abandons it there
\* (the event loop's finalizer hook then closes it); all enter the finally
\* block.
Resume(c, how) ==
    /\ lpc[c] = "yielded"
    /\ how \in {"returned", "closed", "abandoned"}
    /\ lpc' = [lpc EXCEPT ![c] = AfterFinallyEntry(stream[c])]
    /\ outcome' = [outcome EXCEPT ![c] = IF @ = "none" THEN how ELSE @]
    /\ closes' = [closes EXCEPT ![c] = @ + ClosesInFinally(stream[c])]
    /\ UNCHANGED <<support_tools, ncalls, stream, accumulated_tool_calls,
                   in_tool_call, final_text, available_tools, yielded, delivered,
                   merged, flagAtStart, flagHeld, passed_tools, capFaults>>
    /\ UNCHANGED <<turnVars, sessionVars, cleanVars>>

\* Line 162: stream.close() returns and the call ends the way it entered
\* the finally block.
CloseReturns(c) ==
    /\ lpc[c] = "closing"
    /\ lpc' = [lpc EXCEPT ![c] = "done"]
    /\ stream' = [stream EXCEPT ![c] = StreamAfterFinally(@)]
    /\ UNCHANGED <<support_tools, ncalls, accumulated_tool_calls, in_tool_call,
                   final_text, available_tools, yielded, outcome, closes,
                   delivered, merged, flagAtStart, flagHeld, passed_tools,
                   capFaults>>
    /\ UNCHANGED <<turnVars, sessionVars, cleanVars>>

\* Line 162: the task is cancelled while stream.close() is awaited, or
\* close() raises: the call ends with that exception, the close not done.
CloseInterrupted(c, how) ==
    /\ lpc[c] = "closing"
    /\ how \in {"raised", "cancelled"}
    /\ lpc' = [lpc EXCEPT ![c] = "done"]
    /\ outcome' = [outcome EXCEPT ![c] = how]
    /\ UNCHANGED <<support_tools, ncalls, stream, accumulated_tool_calls,
                   in_tool_call, final_text, available_tools, yielded, closes,
                   delivered, merged, flagAtStart, flagHeld, passed_tools,
                   capFaults>>
    /\ UNCHANGED <<turnVars, sessionVars, cleanVars>>

\* --------------------------------------------------------- clean_response

\* \s of the regular expressions, over the characters of the model.
IsSpace(ch) == ch \in {" ", "\n", "\t"}
\* [,\.!?;:]
IsPunct(ch) == ch \in {",", ".", "!", "?", ";", ":"}

\* The first position from i on that holds no whitespace (Len(t) + 1 if none).
RECURSIVE SkipSpace(_, _)
SkipSpace(t, i) ==
    IF i <= Len(t) /\ IsSpace(t[i]) THEN SkipSpace(t, i + 1) ELSE i

\* The position of the first "]" after position j reached without crossing
\* a newline ("." matches no newline), or 0.
RECURSIVE CloseOf(_, _)
CloseOf(t, k) ==
    IF k > Len(t) THEN 0
    ELSE IF t[k] = "]" THEN k
    ELSE IF t[k] = "\n" THEN 0
    ELSE CloseOf(t, k + 1)

\* re.sub(r"\s*\[.*?\]\s*", " ", text) from position i on.
RECURSIVE StripAnnotations(_, _)
StripAnnotations(t, i) ==
    IF i > Len(t) THEN <<>>
    ELSE LET j == SkipSpace(t, i)
             k == IF j <= Len(t) /\ t[j] = "[" THEN CloseOf(t, j + 1) ELSE 0
         IN  IF k > 0
             THEN <<" ">> \o StripAnnotations(t, SkipSpace(t, k + 1))
             ELSE <<t[i]>> \o StripAnnotations(t, i + 1)

\* re.sub(r"([,\.!?;:])([^\s])", r"\1 \2", text) from position i on.
RECURSIVE SpacePunctuation(_, _)
SpacePunctuation(t, i) ==
    IF i > Len(t) THEN <<>>
    ELSE IF IsPunct(t[i]) /\ i < Len(t) /\ ~IsSpace(t[i + 1])
         THEN <<t[i], " ", t[i + 1]>> \o SpacePunctuation(t, i + 2)
         ELSE <<t[i]>> \o SpacePunctuation(t, i + 1)

\* re.sub(r"\s+", " ", text) from position i on.
RECURSIVE CollapseSpace(_, _)
CollapseSpace(t, i) ==
    IF i > Len(t) THEN <<>>
    ELSE IF IsSpace(t[i])
         THEN <<" ">> \o CollapseSpace(t, SkipSpace(t, i))
         ELSE <<t[i]>> \o CollapseSpace(t, i + 1)

\* str.strip()
RECURSIVE StripRight(_)
StripRight(t) ==
    IF t # <<>> /\ IsSpace(t[Len(t)]) THEN StripRight(SubSeq(t, 1, Len(t) - 1)) ELSE t
Strip(t) == LET j == SkipSpace(t, 1) IN StripRight(SubSeq(t, j, Len(t)))

clean_response(text) ==
    Strip(CollapseSpace(SpacePunctuation(StripAnnotations(text, 1), 1), 1))

\* ---------------------------------------------- process_single_conversation

\* An event as the client sink receives it.
Event(type, text) == [type |-> type, text |-> text]

\* What send_conversation_start_signals and finalize_conversation_turn send,
\* and what the synthesis dispatcher sends for a job.
StartSignal == Event("conversation-start", "")
EndSignal == Event("turn-complete", "")
AudioEvent == Event("audio", "")
SynthesisError == Event("error", "synthesis")

\* What line 132 sends.
SynthComplete == Event("backend-synth-complete", "")

\* context.character_config.character_name
character_name == "character_name"

\* What the agent stream may yield: a tool_call_status dict, a
\* SentenceOutput or an AudioOutput with the texts iterating it gives, or
\* anything else.
Item(kind, parts) == [kind |-> kind, parts |-> parts]
Texts == {<<"H", "i">>, <<"[", "x", "]">>, <<".", "a">>}
AgentItems ==
    {Item("status", <<>>), Item("other", <<>>)}
    \cup {Item("sentence", <<t>>) : t \in Texts}
    \cup {Item("sentence", <<<<"o", "k">>, <<"!", "b">>>>),
          Item("audio", <<<<"a">>>>)}

\* What process_user_input may resolve the input to.
Inputs == {<<"h", "i">>}

\* str(e) of an exception raised while the agent stream is drained.
Messages == {"e1", "e2"}

\* The awaits inside the inner try block, and the other awaits of the turn.
DrainAwaits == {"drain", "inner", "send_status"}
OtherAwaits ==
    {"start", "input", "send_error", "speak", "join", "send_synth", "finalize"}

InitTurn ==
    /\ pc = "start"
    /\ status = "running"
    /\ history_uid \in BOOLEAN
    /\ skip_history \in BOOLEAN
    /\ input_text = <<>>
    /\ full_response = <<>>
    /\ cleaned_response = <<>>
    /\ task_list = <<>>
    /\ events = <<>>
    /\ history = <<>>
    /\ cleanups = 0
    /\ consumed = 0
    /\ inner = <<>>
    /\ pending = "none"
    /\ caught = 0
    /\ error_message = "none"
    /\ textAtFault = <<>>
    /\ consumedAtFault = 0
    /\ returned = <<>>
    /\ leftAt = "none"
    /\ cancelled_at = "none"
    /\ tts_text = <<>>
    /\ http_status = <<>>
    /\ cleanup_kind = "none"

\* Line 131: a gather that is cancelled cancels the jobs that have not
\* ended.
gather_cancelled(tl) ==
    [j \in 1..Len(tl) |-> IF tl[j] = "scheduled" THEN "abandoned" ELSE tl[j]]

\* What cleanup_conversation may do with the jobs of the tts_manager it is
\* given: abandon those still scheduled, as the turn's cancellation asks
\* for, or leave them to run.
CleanupKinds == {"cancel", "leave"}

\* cleanup_conversation releases the tts_manager: the jobs still scheduled
\* are abandoned, unless it leaves them alone.
abandon_jobs(kind, tl) ==
    [j \in 1..Len(tl) |->
        IF kind = "cancel" /\ tl[j] = "scheduled" THEN "abandoned" ELSE tl[j]]

\* The finally block (lines 159-160), on the way out with status st.
LeaveSkippingCleanup(st) ==
    /\ pc' = "done"
    /\ leftAt' = pc
    /\ status' = st
    /\ UNCHANGED <<cleanups, task_list, cleanup_kind>>
Leave(st) ==
    /\ pc' = "done"
    /\ leftAt' = pc
    /\ status' = st
    /\ cleanups' = cleanups + 1
    /\ \E kind \in CleanupKinds :
          /\ cleanup_kind' = kind
          /\ task_list' = abandon_jobs(kind, task_list)

\* Whether the human message is stored (line 72).
StoresHumanIgnoringSkip == history_uid
StoresHuman == history_uid /\ ~skip_history
\* Whether the AI message is stored (line 142).
StoresAIWhateverTheText == history_uid
StoresAI == history_uid /\ cleaned_response # <<>>

Message(role, content) == [role |-> role, content |-> content]

\* Line 56: the start signals are sent; the turn then awaits the input.
StartSent ==
    /\ status = "running" /\ pc = "start"
    /\ events' = Append(events, StartSignal)
    /\ pc' = "input"
    /\ UNCHANGED <<status, history_uid, skip_history, input_text, full_response,
                   cleaned_response, task_list, history, cleanups, consumed,
                   inner, pending, caught, error_message, textAtFault,
                   consumedAtFault, returned>>
    /\ UNCHANGED <<leftAt, cancelled_at, cleanup_kind>>
    /\ UNCHANGED <<tts_text, http_status>>
    /\ UNCHANGED <<llmVars, sessionVars, cleanVars>>

\* Lines 60-86: the input is resolved, the human message stored, the agent
\* called; the turn then awaits the first item.
InputResolved(text) ==
    /\ status = "running" /\ pc = "input"
    /\ input_text' = text
    /\ history' = IF StoresHuman THEN Append(history, Message("human", text))
                  ELSE history
    /\ pc' = "drain"
    /\ UNCHANGED <<status, history_uid, skip_history, full_response,
                   cleaned_response, task_list, events, cleanups, consumed,
                   inner, pending, caught, error_message, textAtFault,
                   consumedAtFault, returned>>
    /\ UNCHANGED <<leftAt, cancelled_at, cleanup_kind>>
    /\ UNCHANGED <<tts_text, http_status>>
    /\ UNCHANGED <<llmVars, sessionVars, cleanVars>>

\* Lines 73-79: store_message raises on the human message.
HumanStoreFails(text) ==
    /\ status = "running" /\ pc = "input"
    /\ StoresHuman
    /\ input_text' = text
    /\ Leave("failed")
    /\ UNCHANGED <<history_uid, skip_history, full_response, cleaned_response,
                   events, history, consumed, inner, pending, caught,
                   error_message, textAtFault, consumedAtFault, returned>>
    /\ UNCHANGED cancelled_at
    /\ UNCHANGED <<tts_text, http_status>>
    /\ UNCHANGED <<llmVars, sessionVars, cleanVars>>

\* Lines 86-103: the agent yields an item.
AgentYields(item) ==
    /\ status = "running" /\ pc = "drain"
    /\ consumed < MaxItems
    /\ consumed' = consumed + 1
    /\ CASE item.kind = "status" ->
              /\ pending' = character_name
              /\ pc' = "send_status"
              /\ UNCHANGED inner
         [] item.kind \in {"sentence", "audio"} ->
              /\ inner' = item.parts
              /\ pc' = "inner"
              /\ UNCHANGED pending
         [] OTHER -> UNCHANGED <<pc, inner, pending>>
    /\ UNCHANGED <<status, history_uid, skip_history, input_text, full_response,
                   cleaned_response, task_list, events, history, cleanups, caught,
                   error_message, textAtFault, consumedAtFault, returned>>
    /\ UNCHANGED <<leftAt, cancelled_at, cleanup_kind>>
    /\ UNCHANGED <<tts_text, http_status>>
    /\ UNCHANGED <<llmVars, sessionVars, cleanVars>>

\* Line 90: the tool-call status is sent, tagged with the character's name.
StatusSent ==
    /\ status = "running" /\ pc = "send_status"
    /\ events' = Append(events, Event("tool_call_status", pending))
    /\ pending' = "none"
    /\ pc' = "drain"
    /\ UNCHANGED <<status, history_uid, skip_history, input_text, full_response,
                   cleaned_response, task_list, history, cleanups, consumed,
                   inner, caught, error_message, textAtFault, consumedAtFault,
                   returned>>
    /\ UNCHANGED <<leftAt, cancelled_at, cleanup_kind>>
    /\ UNCHANGED <<tts_text, http_status>>
    /\ UNCHANGED <<llmVars, sessionVars, cleanVars>>

\* Lines 94-95 and 99-100: the item gives its next text, which is buffered.
InnerYields ==
    /\ status = "running" /\ pc = "inner"
    /\ inner # <<>>
    /\ full_response' = full_response \o Head(inner)
    /\ inner' = Tail(inner)
    /\ UNCHANGED <<pc, status, history_uid, skip_history, input_text,
                   cleaned_response, task_list, events, history, cleanups,
                   consumed, pending, caught, error_message, textAtFault,
                   consumedAtFault, returned>>
    /\ UNCHANGED <<leftAt, cancelled_at, cleanup_kind>>
    /\ UNCHANGED <<tts_text, http_status>>
    /\ UNCHANGED <<llmVars, sessionVars, cleanVars>>

\* The item is exhausted; the turn awaits the next item of the agent.
InnerEnds ==
    /\ status = "running" /\ pc = "inner"
    /\ inner = <<>>
    /\ pc' = "drain"
    /\ UNCHANGED <<status, history_uid, skip_history, input_text, full_response,
                   cleaned_response, task_list, events, history, cleanups,
                   consumed, inner, pending, caught, error_message, textAtFault,
                   consumedAtFault, returned>>
    /\ UNCHANGED <<leftAt, cancelled_at, cleanup_kind>>
    /\ UNCHANGED <<tts_text, http_status>>
    /\ UNCHANGED <<llmVars, sessionVars, cleanVars>>

\* Lines 105-107: an exception raised at an await of the inner try block is
\* caught, and the error event is being sent.
DrainFault(e) ==
    /\ status = "running" /\ pc \in DrainAwaits
    /\ caught' = caught + 1
    /\ error_message' = e
    /\ textAtFault' = full_response
    /\ consumedAtFault' = consumed
    /\ pc' = "send_error"
    /\ UNCHANGED <<status, history_uid, skip_history, input_text, full_response,
                   cleaned_response, task_list, events, history, cleanups,
                   consumed, inner, pending, returned>>
    /\ UNCHANGED <<leftAt, cancelled_at, cleanup_kind>>
    /\ UNCHANGED <<tts_text, http_status>>
    /\ UNCHANGED <<llmVars, sessionVars, cleanVars>>

\* Lines 109-135 up to the next await: the response is cleaned; a non-empty
\* one goes to tts_manager.speak, an empty one leaves task_list empty and
\* goes on to finalize_conversation_turn.
AwaitAfterClean(cleaned) == IF cleaned # <<>> THEN "speak" ELSE "finalize"
Normalize ==
    /\ cleaned_response' = clean_response(full_response)
    /\ pc' = AwaitAfterClean(clean_response(full_response))
    /\ tts_text' = IF clean_response(full_response) # <<>>
                   THEN clean_response(full_response) ELSE tts_text

\* Line 86: the agent stream ends.
AgentEnds ==
    /\ status = "running" /\ pc = "drain"
    /\ Normalize
    /\ UNCHANGED <<status, history_uid, skip_history, input_text, full_response,
                   task_list, events, history, cleanups, consumed, inner, pending,
                   caught, error_message, textAtFault, consumedAtFault, returned>>
    /\ UNCHANGED <<leftAt, cancelled_at, cleanup_kind>>
    /\ UNCHANGED http_status
    /\ UNCHANGED <<llmVars, sessionVars, cleanVars>>

\* Line 107: the error event is sent; the turn goes on after the try block.
ErrorSentThenDrains ==
    /\ status = "running" /\ pc = "send_error"
    /\ events' = Append(events, Event("error", error_message))
    /\ pc' = "drain"
    /\ UNCHANGED <<status, history_uid, skip_history, input_text, full_response,
                   cleaned_response, task_list, history, cleanups, consumed,
                   inner, pending, caught, error_message, textAtFault,
                   consumedAtFault, returned>>
    /\ UNCHANGED <<leftAt, cancelled_at, cleanup_kind>>
    /\ UNCHANGED <<tts_text, http_status>>
    /\ UNCHANGED <<llmVars, sessionVars, cleanVars>>
ErrorSent ==
    /\ status = "running" /\ pc = "send_error"
    /\ events' = Append(events, Event("error", error_message))
    /\ Normalize
    /\ UNCHANGED <<status, history_uid, skip_history, input_text, full_response,
                   task_list, history, cleanups, consumed, inner, pending, caught,
                   error_message, textAtFault, consumedAtFault, returned>>
    /\ UNCHANGED <<leftAt, cancelled_at, cleanup_kind>>
    /\ UNCHANGED http_status
    /\ UNCHANGED <<llmVars, sessionVars, cleanVars>>

\* tts_manager.speak, awaited by the turn, schedules the one job of the
\* turn: the job runs from here on, whether or not speak has returned.
\* Nothing in the turn makes speak do so before it returns.
SpeakSchedules ==
    /\ status = "running" /\ pc = "speak"
    /\ task_list = <<>>
    /\ task_list' = Append(task_list, "scheduled")
    /\ http_status' = Append(http_status, 0)
    /\ UNCHANGED <<pc, status, history_uid, skip_history, input_text,
                   full_response, cleaned_response, events, history, cleanups,
                   consumed, inner, pending, caught, error_message, textAtFault,
                   consumedAtFault, returned>>
    /\ UNCHANGED <<leftAt, cancelled_at, cleanup_kind, tts_text>>
    /\ UNCHANGED <<llmVars, sessionVars, cleanVars>>

\* Lines 120-135: tts_manager.speak returns; with a job in task_list the
\* turn then awaits the gather, with none finalize_conversation_turn.
AwaitAfterSpeak(tl) == IF tl # <<>> THEN "join" ELSE "finalize"
SpeakReturns ==
    /\ status = "running" /\ pc = "speak"
    /\ pc' = AwaitAfterSpeak(task_list)
    /\ UNCHANGED <<status, history_uid, skip_history, input_text, full_response,
                   cleaned_response, task_list, events, history, cleanups,
                   consumed, inner, pending, caught, error_message, textAtFault,
                   consumedAtFault, returned>>
    /\ UNCHANGED <<leftAt, cancelled_at, cleanup_kind>>
    /\ UNCHANGED <<tts_text, http_status>>
    /\ UNCHANGED <<llmVars, sessionVars, cleanVars>>

\* The statuses the speech backend may answer the POST of a job with.
HttpStatuses == {200, 204, 404, 500}

\* resp.raise_for_status() raises HTTPError on a 4xx or 5xx status.
RaisesForStatus(code) == code >= 400 /\ code < 600

\* TTSEngine.generate_audio (lines 43-54): what it gives on a status.
generate_audio_unchecked(code) == IF code = 200 THEN "file_name" ELSE None
generate_audio(code) ==
    IF RaisesForStatus(code) THEN "HTTPError"
    ELSE IF code = 200 THEN "file_name" ELSE None

\* A scheduled job ends: generate_audio returned and the job's payload is
\* delivered, or generate_audio raised and the failure is reported as an
\* error event.
JobCompletes(j, code) ==
    /\ j \in 1..Len(task_list) /\ task_list[j] = "scheduled"
    /\ generate_audio(code) # "HTTPError"
    /\ http_status' = [http_status EXCEPT ![j] = code]
    /\ task_list' = [task_list EXCEPT ![j] = "done"]
    /\ events' = Append(events, AudioEvent)
    /\ UNCHANGED <<pc, status, history_uid, skip_history, input_text,
                   full_response, cleaned_response, history, cleanups, consumed,
                   inner, pending, caught, error_message, textAtFault,
                   consumedAtFault, returned>>
    /\ UNCHANGED <<leftAt, cancelled_at, cleanup_kind>>
    /\ UNCHANGED tts_text
    /\ UNCHANGED <<llmVars, sessionVars, cleanVars>>

JobFails(j, code) ==
    /\ j \in 1..Len(task_list) /\ task_list[j] = "scheduled"
    /\ generate_audio(code) = "HTTPError"
    /\ http_status' = [http_status EXCEPT ![j] = code]
    /\ task_list' = [task_list EXCEPT ![j] = "failed"]
    /\ events' = Append(events, SynthesisError)
    /\ UNCHANGED <<pc, status, history_uid, skip_history, input_text,
                   full_response, cleaned_response, history, cleanups, consumed,
                   inner, pending, caught, error_message, textAtFault,
                   consumedAtFault, returned>>
    /\ UNCHANGED <<leftAt, cancelled_at, cleanup_kind>>
    /\ UNCHANGED tts_text
    /\ UNCHANGED <<llmVars, sessionVars, cleanVars>>

\* A scheduled job ends with an exception it has not handled: its task
\* holds the exception for whoever awaits it, and nothing is sent.
JobRaises(j) ==
    /\ j \in 1..Len(task_list) /\ task_list[j] = "scheduled"
    /\ task_list' = [task_list EXCEPT ![j] = "raised"]
    /\ UNCHANGED <<pc, status, history_uid, skip_history, input_text,
                   full_response, cleaned_response, events, history, cleanups,
                   consumed, inner, pending, caught, error_message, textAtFault,
                   consumedAtFault, returned>>
    /\ UNCHANGED <<leftAt, cancelled_at, cleanup_kind>>
    /\ UNCHANGED <<tts_text, http_status>>
    /\ UNCHANGED <<llmVars, sessionVars, cleanVars>>

\* Whether asyncio.gather(*task_list) can return.
JoinReady(tl) == \A j \in 1..Len(tl) : tl[j] \in {"done", "failed"}

\* Whether asyncio.gather(*task_list) raises: a job has raised.
JoinRaising(tl) == \E j \in 1..Len(tl) : tl[j] = "raised"

\* Whether a cancellation of the gather finds a job that has not ended.
JoinPending(tl) == \E j \in 1..Len(tl) : tl[j] = "scheduled"

\* Lines 131-132: the gather returns; backend-synth-complete is being sent.
JoinReturns ==
    /\ status = "running" /\ pc = "join"
    /\ cancelled_at = "none"
    /\ JoinReady(task_list)
    /\ pc' = "send_synth"
    /\ UNCHANGED <<status, history_uid, skip_history, input_text, full_response,
                   cleaned_response, task_list, events, history, cleanups,
                   consumed, inner, pending, caught, error_message, textAtFault,
                   consumedAtFault, returned>>
    /\ UNCHANGED <<leftAt, cancelled_at, cleanup_kind>>
    /\ UNCHANGED <<tts_text, http_status>>
    /\ UNCHANGED <<llmVars, sessionVars, cleanVars>>

\* Lines 132-135: backend-synth-complete is sent; the turn then awaits
\* finalize_conversation_turn.
SynthCompleteSent ==
    /\ status = "running" /\ pc = "send_synth"
    /\ events' = Append(events, SynthComplete)
    /\ pc' = "finalize"
    /\ UNCHANGED <<status, history_uid, skip_history, input_text, full_response,
                   cleaned_response, task_list, history, cleanups, consumed,
                   inner, pending, caught, error_message, textAtFault,
                   consumedAtFault, returned>>
    /\ UNCHANGED <<leftAt, cancelled_at, cleanup_kind>>
    /\ UNCHANGED <<tts_text, http_status>>
    /\ UNCHANGED <<llmVars, sessionVars, cleanVars>>

\* Lines 135-153 and 159-160: finalize_conversation_turn has sent the
\* end-of-turn signal, the AI message is stored, the turn returns.
FinalizedBeforeSynthComplete ==
    /\ status = "running" /\ pc = "finalize"
    /\ events' = events \o <<EndSignal, SynthComplete>>
    /\ history' = IF StoresAI
                  THEN Append(history, Message("ai", cleaned_response))
                  ELSE history
    /\ returned' = cleaned_response
    /\ Leave("returned")
    /\ UNCHANGED <<history_uid, skip_history, input_text, full_response,
                   cleaned_response, consumed, inner, pending, caught,
                   error_message, textAtFault, consumedAtFault>>
    /\ UNCHANGED cancelled_at
    /\ UNCHANGED <<tts_text, http_status>>
    /\ UNCHANGED <<llmVars, sessionVars, cleanVars>>
Finalized ==
    /\ status = "running" /\ pc = "finalize"
    /\ events' = Append(events, EndSignal)
    /\ history' = IF StoresAI
                  THEN Append(history, Message("ai", cleaned_response))
                  ELSE history
    /\ returned' = cleaned_response
    /\ Leave("returned")
    /\ UNCHANGED <<history_uid, skip_history, input_text, full_response,
                   cleaned_response, consumed, inner, pending, caught,
                   error_message, textAtFault, consumedAtFault>>
    /\ UNCHANGED cancelled_at
    /\ UNCHANGED <<tts_text, http_status>>
    /\ UNCHANGED <<llmVars, sessionVars, cleanVars>>

\* Lines 143-150: store_message raises on the AI message.
AIStoreFails ==
    /\ status = "running" /\ pc = "finalize"
    /\ StoresAI
    /\ events' = Append(events, EndSignal)
    /\ Leave("failed")
    /\ UNCHANGED <<history_uid, skip_history, input_text, full_response,
                   cleaned_response, history, consumed, inner, pending, caught,
                   error_message, textAtFault, consumedAtFault, returned>>
    /\ UNCHANGED cancelled_at
    /\ UNCHANGED <<tts_text, http_status>>
    /\ UNCHANGED <<llmVars, sessionVars, cleanVars>>

\* Lines 131 and 159-160: the gather raises the exception of a job that
\* raised; no except clause of the turn names it, and it leaves through the
\* finally block.
JoinRaises ==
    /\ status = "running" /\ pc = "join"
    /\ cancelled_at = "none"
    /\ JoinRaising(task_list)
    /\ Leave("failed")
    /\ UNCHANGED <<history_uid, skip_history, input_text, full_response,
                   cleaned_response, events, history, consumed, inner, pending,
                   caught, error_message, textAtFault, consumedAtFault, returned>>
    /\ UNCHANGED cancelled_at
    /\ UNCHANGED <<tts_text, http_status>>
    /\ UNCHANGED <<llmVars, sessionVars, cleanVars>>

\* An exception raised at an await outside the inner try block, the gather
\* apart: no except clause of the turn names it, and it leaves through the
\* finally block.
StageFault ==
    /\ status = "running" /\ pc \in OtherAwaits \ {"join"}
    /\ Leave("failed")
    /\ UNCHANGED <<history_uid, skip_history, input_text, full_response,
                   cleaned_response, events, history, consumed, inner, pending,
                   caught, error_message, textAtFault, consumedAtFault, returned>>
    /\ UNCHANGED cancelled_at
    /\ UNCHANGED <<tts_text, http_status>>
    /\ UNCHANGED <<llmVars, sessionVars, cleanVars>>

\* Lines 155-160: the task is cancelled at the await it is suspended at;
\* CancelledError is no Exception, so only the outer clause sees it, and
\* re-raises it.
CancelAbsorbedByDrain ==
    /\ status = "running" /\ pc \in DrainAwaits \cup OtherAwaits
    /\ cancelled_at = "none"
    /\ ~(pc = "join" /\ JoinPending(task_list))
    /\ cancelled_at' = pc
    /\ IF pc \in DrainAwaits
       THEN /\ caught' = caught + 1
            /\ error_message' = "cancelled"
            /\ textAtFault' = full_response
            /\ consumedAtFault' = consumed
            /\ pc' = "send_error"
            /\ UNCHANGED <<status, task_list, cleanups, leftAt, cleanup_kind>>
       ELSE /\ Leave("cancelled")
            /\ UNCHANGED <<caught, error_message, textAtFault, consumedAtFault>>
    /\ UNCHANGED <<history_uid, skip_history, input_text, full_response,
                   cleaned_response, events, history, consumed, inner, pending,
                   returned>>
    /\ UNCHANGED <<tts_text, http_status>>
    /\ UNCHANGED <<llmVars, sessionVars, cleanVars>>
Cancel ==
    /\ status = "running" /\ pc \in DrainAwaits \cup OtherAwaits
    /\ cancelled_at = "none"
    /\ ~(pc = "join" /\ JoinPending(task_list))
    /\ Leave("cancelled")
    /\ UNCHANGED <<history_uid, skip_history, input_text, full_response,
                   cleaned_response, events, history, consumed, inner, pending,
                   caught, error_message, textAtFault, consumedAtFault, returned>>
    /\ cancelled_at' = pc
    /\ UNCHANGED <<tts_text, http_status>>
    /\ UNCHANGED <<llmVars, sessionVars, cleanVars>>

\* Line 131: the task is cancelled while the gather waits for a job that
\* has not ended; the gather cancels its jobs, and the turn stays suspended
\* at the gather until the cancellation comes back to it.
GatherCancelled ==
    /\ status = "running" /\ pc = "join"
    /\ cancelled_at = "none"
    /\ JoinPending(task_list)
    /\ task_list' = gather_cancelled(task_list)
    /\ cancelled_at' = pc
    /\ UNCHANGED <<pc, status, history_uid, skip_history, input_text,
                   full_response, cleaned_response, events, history, cleanups,
                   consumed, inner, pending, caught, error_message, textAtFault,
                   consumedAtFault, returned>>
    /\ UNCHANGED <<leftAt, cleanup_kind>>
    /\ UNCHANGED <<tts_text, http_status>>
    /\ UNCHANGED <<llmVars, sessionVars, cleanVars>>

\* Lines 131 and 155-160: the cancelled gather raises CancelledError into
\* the turn, which re-raises it and leaves through the finally block.
JoinCancelled ==
    /\ status = "running" /\ pc = "join"
    /\ cancelled_at = "join"
    /\ Leave("cancelled")
    /\ UNCHANGED <<history_uid, skip_history, input_text, full_response,
                   cleaned_response, events, history, consumed, inner, pending,
                   caught, error_message, textAtFault, consumedAtFault, returned>>
    /\ UNCHANGED cancelled_at
    /\ UNCHANGED <<tts_text, http_status>>
    /\ UNCHANGED <<llmVars, sessionVars, cleanVars>>

\* ------------------------------------- a second invocation for the client

\* No second invocation has been made.
InitSession ==
    /\ other_pc = "none"
    /\ other_cleanups = 0

\* Lines 41-56: process_single_conversation is called again for the client
\* of the turn; nothing in it looks at the turn that runs, so the call
\* enters its try block and awaits the sending of its start signals.
OtherInvoked ==
    /\ other_pc = "none"
    /\ other_pc' = "start"
    /\ UNCHANGED other_cleanups
    /\ UNCHANGED <<turnVars, llmVars, cleanVars>>

\* Line 56 of the second invocation: its start signals reach the client's
\* sink; it then awaits its input.
OtherStartSent ==
    /\ other_pc = "start"
    /\ events' = Append(events, StartSignal)
    /\ other_pc' = "input"
    /\ UNCHANGED other_cleanups
    /\ UNCHANGED <<pc, status, history_uid, skip_history, input_text,
                   full_response, cleaned_response, task_list, history, cleanups,
                   consumed, inner, pending, caught, error_message, textAtFault,
                   consumedAtFault, returned, leftAt, cancelled_at, tts_text,
                   http_status, cleanup_kind>>
    /\ UNCHANGED <<llmVars, cleanVars>>

\* Lines 155-160 of the second invocation: it is cancelled, or its await
\* raises, and it leaves through its finally block.  It is followed no
\* further than its await of the input.
OtherLeaves ==
    /\ other_pc \in {"start", "input"}
    /\ other_pc' = "done"
    /\ other_cleanups' = other_cleanups + 1
    /\ UNCHANGED <<turnVars, llmVars, cleanVars>>

\* ------------------------------------------- clean_response on its result

\* clean_response has not been applied.
InitClean ==
    /\ cr_pc = 0
    /\ cr_text = <<>>
    /\ cr_once = <<>>
    /\ cr_twice = <<>>

\* The characters of the texts: a letter, the whitespace, the brackets and
\* punctuation.
CleanAlphabet == {"a", " ", "\n", "[", "]", ".", "?"}

\* The texts clean_response is applied to.
CleanTexts == UNION {[1..n -> CleanAlphabet] : n \in 0..MaxTextLen}

\* A text is chosen.
InitCleanOf ==
    /\ cr_pc = 0
    /\ cr_text \in CleanTexts
    /\ cr_once = <<>>
    /\ cr_twice = <<>>

\* clean_response is applied to the text.
CleanOnce ==
    /\ cr_pc = 0
    /\ cr_once' = clean_response(cr_text)
    /\ cr_pc' = 1
    /\ UNCHANGED <<cr_text, cr_twice>>
    /\ UNCHANGED <<llmVars, turnVars, sessionVars>>

\* clean_response is applied to its own result.
CleanTwice ==
    /\ cr_pc = 1
    /\ cr_twice' = clean_response(cr_once)
    /\ cr_pc' = 2
    /\ UNCHANGED <<cr_text, cr_once>>
    /\ UNCHANGED <<llmVars, turnVars, sessionVars>>

\* ---------------------------------------------------------- specifications

vars == <<llmVars, turnVars, sessionVars, cleanVars>>

\* One turn of process_single_conversation.
NextTurn ==
    \/ StartSent
    \/ \E text \in Inputs : InputResolved(text)
    \/ \E text \in Inputs : HumanStoreFails(text)
    \/ \E item \in AgentItems : AgentYields(item)
    \/ StatusSent
    \/ InnerYields
    \/ InnerEnds
    \/ \E e \in Messages : DrainFault(e)
    \/ AgentEnds
    \/ ErrorSent
    \/ SpeakSchedules
    \/ SpeakReturns
    \/ \E j \in 1..Len(task_list), code \in HttpStatuses : JobCompletes(j, code)
    \/ \E j \in 1..Len(task_list), code \in HttpStatuses : JobFails(j, code)
    \/ \E j \in 1..Len(task_list) : JobRaises(j)
    \/ JoinReturns
    \/ JoinRaises
    \/ SynthCompleteSent
    \/ Finalized
    \/ AIStoreFails
    \/ StageFault
    \/ Cancel
    \/ GatherCancelled
    \/ JoinCancelled

InitOfTurn == InitTurn /\ InitLLM /\ InitSession /\ InitClean
SpecTurn == InitOfTurn /\ [][NextTurn]_vars

\* A turn of a client and a second invocation for the same client.
NextSession ==
    \/ NextTurn
    \/ OtherInvoked
    \/ OtherStartSent
    \/ OtherLeaves

InitOfSession == InitTurn /\ InitLLM /\ InitSession /\ InitClean
SpecSession == InitOfSession /\ [][NextSession]_vars

\* The turn's variables while only chat_completion is looked at.
IdleTurn ==
    /\ InitTurn
    /\ history_uid = FALSE
    /\ skip_history = FALSE

\* clean_response on a text and on its own result.
NextClean ==
    \/ CleanOnce
    \/ CleanTwice

InitOfClean == InitLLM /\ IdleTurn /\ InitSession /\ InitCleanOf
SpecClean == InitOfClean /\ [][NextClean]_vars

\* One call at a time on an AsyncLLM instance.
NextCall ==
    \/ \E tools \in ToolArgs : Start(1, tools)
    \/ CreateOk(1)
    \/ \E ch \in Chunks : RecvChunk(1, ch, MaxChunks)
    \/ StreamEnd(1)
    \/ \E k \in HandledKinds : HandledFault(1, k)
    \/ \E how \in {"raised", "cancelled"} : Propagates(1, how)
    \/ \E how \in {"returned", "closed", "abandoned"} : Resume(1, how)
    \/ CloseReturns(1)
    \/ \E how \in {"raised", "cancelled"} : CloseInterrupted(1, how)

InitOfCall == InitLLM /\ IdleTurn /\ InitSession /\ InitClean
SpecCall == InitOfCall /\ [][NextCall]_vars

\* Two calls sharing an AsyncLLM instance, interleaved at their awaits.
NextLLM ==
    \/ \E c \in Slots, tools \in ToolArgs : Start(c, tools)
    \/ \E c \in Slots : CreateOk(c)
    \/ \E c \in Slots, ch \in ConcChunks : RecvChunk(c, ch, MaxConcChunks)
    \/ \E c \in Slots : StreamEnd(c)
    \/ \E c \in Slots, k \in ConcFaultKinds : HandledFault(c, k)
    \/ \E c \in Slots, how \in {"raised", "cancelled"} : Propagates(c, how)
    \/ \E c \in Slots : Resume(c, "returned")
    \/ \E c \in Slots : CloseReturns(c)
    \/ \E c \in Slots, how \in {"raised", "cancelled"} :
          CloseInterrupted(c, how)

InitOfLLM == InitLLM /\ IdleTurn /\ InitSession /\ InitClean
SpecLLM == InitOfLLM /\ [][NextLLM]_vars

\* ---------------------------------------------------- claims on the turn

\* How often event e occurs among the events sent.
Occurrences(seq, e) == Cardinality({k \in 1..Len(seq) : seq[k] = e})

\* The turn has got past the sending of the error event.
PastErrorSend ==
    \/ pc \in {"speak", "join", "send_synth", "finalize"}
    \/ pc = "done" /\ leftAt # "send_error"

\* C1: cleanup_conversation runs exactly once per turn on every exit path
\* (return, fault, cancellation): no call while the turn runs, one call
\* once it has ended, however it ended.
C1_CleanupExactlyOnce ==
    /\ pc = "done" <=> status \in {"returned", "failed", "cancelled"}
    /\ pc = "done" => cleanups = 1
    /\ pc # "done" => cleanups = 0

\* A turn cancelled while it waited at the join of its job.
C1_Witness ==
    /\ status = "cancelled"
    /\ leftAt = "join"
    /\ cleanups = 1

\* C2: a cancellation delivered at any await of the turn ends the turn as
\* cancelled, at once or, when the gather has jobs to cancel first, in the
\* turn's next step; the steps that deliver it and end the turn send no
\* event and are not caught by the handler of the drain; a cancelled turn
\* never becomes a returned one.
C2_CancellationPropagates ==
    /\ [](cancelled_at # "none" =>
            \/ status = "cancelled" /\ pc = "done"
            \/ /\ status = "running" /\ pc = "join" /\ cancelled_at = "join"
               /\ ~JoinPending(task_list))
    /\ [][cancelled_at = "none" /\ cancelled_at' # "none" =>
            /\ events' = events
            /\ caught' = caught]_vars
    /\ [][cancelled_at # "none" /\ status = "running" =>
            /\ status' = "cancelled"
            /\ pc' = "done"
            /\ events' = events
            /\ caught' = caught]_vars

\* A turn cancelled while it awaited the next text of an agent item.
C2_Witness ==
    /\ cancelled_at = "inner"
    /\ status = "cancelled"
    /\ full_response # <<>>

\* C3: an exception raised while the agent stream is drained does not fail
\* the turn; it is caught once, no further item is consumed and no further
\* text buffered, and once the error event has been sent the client has
\* exactly one error event with the exception's message and the cleaned
\* response is that of the text buffered before the exception, the turn
\* going on to synthesis or finalization.
C3_DrainErrorHandled ==
    /\ status = "failed" => leftAt \notin DrainAwaits
    /\ caught >= 1 =>
          /\ caught = 1
          /\ pc \notin DrainAwaits
          /\ consumed = consumedAtFault
          /\ full_response = textAtFault
          /\ Occurrences(events, Event("error", error_message)) =
                IF PastErrorSend THEN 1 ELSE 0
          /\ PastErrorSend => cleaned_response = clean_response(textAtFault)
          /\ pc = "speak" => cleaned_response # <<>>

\* A turn that returned after an exception that followed buffered text,
\* with its job synthesized.
C3_Witness ==
    /\ caught = 1
    /\ status = "returned"
    /\ textAtFault # <<>>
    /\ task_list = <<"done">>
    /\ consumed = 2

\* C4: in a turn that has returned, the end-of-turn signal was sent exactly
\* once and is the last event the client has received.
C4_EndSignalLast ==
    status = "returned" =>
        /\ Occurrences(events, EndSignal) = 1
        /\ events[Len(events)] = EndSignal

\* A returned turn whose client saw a tool-call status, an error event, the
\* audio and backend-synth-complete before the end-of-turn signal.
C4_Witness ==
    /\ status = "returned"
    /\ Occurrences(events, Event("tool_call_status", character_name)) = 1
    /\ Occurrences(events, Event("error", "e1")) = 1
    /\ Occurrences(events, AudioEvent) = 1
    /\ Occurrences(events, Event("backend-synth-complete", "")) = 1

\* C5: a turn that has ended on a fault of input resolution, persistence,
\* synthesis scheduling, the join or finalization has sent the client an
\* error event or the end-of-turn signal.
C5_FaultSignalled ==
    status = "failed" /\ leftAt \in {"input", "speak", "join", "finalize"} =>
        \E k \in 1..Len(events) : events[k].type \in {"error", "turn-complete"}

\* The turn has got past tts_manager.speak or had nothing to speak.
PastSpeak ==
    \/ pc \in {"join", "send_synth", "finalize"}
    \/ pc = "done" /\ leftAt \in {"join", "send_synth", "finalize"}

\* The turn has got past the sending of backend-synth-complete.
PastSynthSend == pc = "finalize" \/ (pc = "done" /\ leftAt = "finalize")

C15_SynthesisFaultReported ==
    /\ [](/\ \A j \in 1..Len(task_list) :
               /\ RaisesForStatus(http_status[j]) => task_list[j] = "failed"
               /\ task_list[j] = "failed" =>
                     Occurrences(events, SynthesisError) >= 1
          /\ (/\ status = "running" /\ pc = "join"
              /\ \A j \in 1..Len(task_list) : task_list[j] \in {"done", "failed"})
             => ENABLED JoinReturns)
    /\ [][\A j \in 1..Len(task_list) :
            task_list[j] = "scheduled" /\ task_list'[j] = "failed" =>
                /\ status' = status
                /\ pc' = pc
                /\ events' = Append(events, SynthesisError)]_vars

\* A turn that returned although the backend answered its job with 500: the
\* client got the error event, backend-synth-complete and the end signal.
C15_Witness ==
    /\ status = "returned"
    /\ http_status = <<500>>
    /\ task_list = <<"failed">>
    /\ events = <<StartSignal, SynthesisError, SynthComplete, EndSignal>>

C17_OneTurnAtATime ==
    other_pc = "input" => pc = "done" /\ cleanups = 1

\* The positions of the messages of a role in the history.
MessagesOf(role) == {k \in 1..Len(history) : history[k].role = role}

\* The turn has got past the storing of the human message.
PastHumanStore ==
    \/ pc \notin {"start", "input", "done"}
    \/ pc = "done" /\ leftAt \notin {"start", "input"}

\* C18: the AI message is stored at most once, only with history enabled
\* and a non-empty normalized response, only in a turn that has sent its
\* end-of-turn signal; its content is the normalized response, which is
\* the text given to tts_manager.speak and the value the turn returns; a
\* returned turn has stored it exactly under those conditions.
C18_AIMessagePersisted ==
    /\ Cardinality(MessagesOf("ai")) <= 1
    /\ \A k \in MessagesOf("ai") :
          /\ history_uid
          /\ cleaned_response # <<>>
          /\ Occurrences(events, EndSignal) = 1
          /\ status = "returned"
          /\ history[k].content = cleaned_response
          /\ history[k].content = tts_text
          /\ history[k].content = returned
    /\ status = "returned" =>
          /\ returned = cleaned_response
          /\ MessagesOf("ai") # {} <=> (history_uid /\ cleaned_response # <<>>)

\* A returned turn that stored the human and the AI message, the response
\* having been changed by clean_response.
C18_Witness ==
    /\ status = "returned"
    /\ Len(history) = 2
    /\ history[2] = Message("ai", cleaned_response)
    /\ cleaned_response # full_response
    /\ task_list = <<"done">>

\* C19: clean_response applied to its own result gives that result.
C19_Idempotent ==
    cr_pc = 2 => cr_twice = cr_once

\* C20 as stated: an AI message is stored only after the human message of
\* the turn, and a turn asked to skip the history stores nothing.
C20_HistoryConsistent ==
    /\ \A k \in MessagesOf("ai") : \E h \in MessagesOf("human") : h < k
    /\ skip_history => history = <<>>

\* C20 as the code has it: the human message is stored exactly when the
\* history is enabled and skip_history is not asked for, at most once and
\* with the resolved input as content; an AI message stored in the same turn
\* follows it; a turn asked to skip the history stores no human message,
\* and a returned one stores the AI message whenever the history is enabled
\* and the normalized response is non-empty.
C20_HistoryWrites ==
    /\ Cardinality(MessagesOf("human")) <= 1
    /\ ~history_uid => history = <<>>
    /\ skip_history => MessagesOf("human") = {}
    /\ \A h \in MessagesOf("human") :
          /\ h = 1
          /\ history[h].content = input_text
    /\ PastHumanStore =>
          (MessagesOf("human") # {} <=> (history_uid /\ ~skip_history))
    /\ status = "returned" /\ skip_history =>
          (history = IF history_uid /\ cleaned_response # <<>>
                     THEN <<Message("ai", cleaned_response)>> ELSE <<>>)

\* A returned turn asked to skip the history: only the AI message is stored.
C20_Witness ==
    /\ status = "returned"
    /\ skip_history
    /\ Len(history) = 1
    /\ history[1].role = "ai"

\* ------------------------------------------- claims on chat_completion

\* The tool-call fragments of a sequence of chunks, in arrival order.
RECURSIVE AllFrags(_)
AllFrags(chunks) ==
    IF chunks = <<>> THEN <<>>
    ELSE Head(chunks).tool_calls \o AllFrags(Tail(chunks))

\* The text deltas of a sequence of chunks, in arrival order.
RECURSIVE AllContent(_)
AllContent(chunks) ==
    IF chunks = <<>> THEN <<>>
    ELSE Head(chunks).content \o AllContent(Tail(chunks))

IndexesOf(frags) == {frags[k].index : k \in 1..Len(frags)}

\* The arguments of the fragments of index i, in arrival order.
RECURSIVE ArgsFor(_, _)
ArgsFor(frags, i) ==
    IF frags = <<>> THEN <<>>
    ELSE (IF Head(frags).index = i /\ Head(frags).hasfn
          THEN Head(frags).arguments ELSE <<>>) \o ArgsFor(Tail(frags), i)

\* The values a field takes in the fragments of index i, in arrival order.
RECURSIVE IdsFor(_, _)
IdsFor(frags, i) ==
    IF frags = <<>> THEN <<>>
    ELSE (IF Head(frags).index = i THEN <<Head(frags).id>> ELSE <<>>)
         \o IdsFor(Tail(frags), i)
RECURSIVE TypesFor(_, _)
TypesFor(frags, i) ==
    IF frags = <<>> THEN <<>>
    ELSE (IF Head(frags).index = i THEN <<Head(frags).type>> ELSE <<>>)
         \o TypesFor(Tail(frags), i)
RECURSIVE NamesFor(_, _)
NamesFor(frags, i) ==
    IF frags = <<>> THEN <<>>
    ELSE (IF Head(frags).index = i /\ Head(frags).hasfn
          THEN <<Head(frags).name>> ELSE <<>>) \o NamesFor(Tail(frags), i)

HasNonEmpty(vals) == \E k \in 1..Len(vals) : Truthy(vals[k])
FirstNonEmpty(vals) ==
    vals[CHOOSE k \in 1..Len(vals) :
            Truthy(vals[k]) /\ \A m \in 1..(k - 1) : ~Truthy(vals[m])]

IsPrefix(a, b) == Len(a) <= Len(b) /\ SubSeq(b, 1, Len(a)) = a

\* The call of slot c has yielded the result of a stream that ended without
\* a fault.
EndedNormally(c) ==
    /\ lpc[c] \in {"yielded", "closing", "done"}
    /\ outcome[c] \in {"none", "returned", "closed", "abandoned"}

\* C6: a call whose flag stayed true and whose stream ended without a fault
\* has yielded exactly one item: the concatenated text deltas if no chunk
\* carried a fragment, else the accumulated records, one per index, and no
\* text.
C6_OneFinalItem ==
    \A c \in Slots :
        EndedNormally(c) /\ flagHeld[c] =>
            /\ Len(yielded[c]) = 1
            /\ LET item == yielded[c][1]
                   frs == AllFrags(delivered[c])
               IN  IF frs = <<>>
                   THEN /\ item.kind = "text"
                        /\ item.text = AllContent(delivered[c])
                        /\ item.tools = <<>>
                   ELSE /\ item.kind = "tools"
                        /\ item.text = <<>>
                        /\ item.tools = accumulated_tool_calls[c]
                        /\ Len(item.tools) = Cardinality(IndexesOf(frs))
                        /\ IndexesOf(item.tools) = IndexesOf(frs)

\* A call that has returned two tool-call records although text deltas came
\* with the fragments.
C6_Witness ==
    /\ lpc[1] = "done" /\ outcome[1] = "returned" /\ flagHeld[1]
    /\ Len(yielded[1]) = 1
    /\ yielded[1][1].kind = "tools"
    /\ Len(yielded[1][1].tools) = 2
    /\ final_text[1] # <<>>

\* C7: every list of tool-call records a call yields holds, for every index
\* the backend streamed a fragment of in that call, a record with all the
\* arguments streamed for that index.
C7_ToolCallsComplete ==
    \A c \in Slots : \A n \in 1..Len(yielded[c]) :
        yielded[c][n].kind = "tools" =>
            \A i \in IndexesOf(AllFrags(delivered[c])) :
                \E k \in 1..Len(yielded[c][n].tools) :
                    /\ yielded[c][n].tools[k].index = i
                    /\ yielded[c][n].tools[k].function.arguments =
                          ArgsFor(AllFrags(delivered[c]), i)

\* C8: support_tools starts true, is false exactly when a capability fault
\* has been handled on the instance and never goes back to true; a call
\* started while it is false sends its request without tools.
C8_FlagMonotonic ==
    /\ [](/\ ncalls = 0 => support_tools
          /\ support_tools <=> capFaults = 0
          /\ \A c \in Slots :
                lpc[c] # "idle" /\ ~flagAtStart[c] =>
                    available_tools[c] = NOT_GIVEN)
    /\ [][~support_tools => ~support_tools']_vars

\* A call started with tools after another call's capability fault, its
\* request sent without them.
C8_Witness ==
    /\ outcome[1] = "capability"
    /\ lpc[2] = "iter"
    /\ ~flagAtStart[2]
    /\ passed_tools[2] = "tools"
    /\ available_tools[2] = NOT_GIVEN

\* C9: for every index, id, type and function name keep the first
\* non-empty value a fragment of that index carried.
C9_FieldsSetOnce ==
    \A c \in Slots : \A k \in 1..Len(accumulated_tool_calls[c]) :
        LET r == accumulated_tool_calls[c][k]
            ids == IdsFor(merged[c], r.index)
            types == TypesFor(merged[c], r.index)
            names == NamesFor(merged[c], r.index)
        IN  /\ HasNonEmpty(ids) => r.id = FirstNonEmpty(ids)
            /\ HasNonEmpty(types) => r.type = FirstNonEmpty(types)
            /\ HasNonEmpty(names) => r.function.name = FirstNonEmpty(names)

\* C10: the arguments of every record are the concatenation, in arrival
\* order, of the arguments of the fragments of its index the accumulator
\* was given, every such index has its record, and a step of a call only
\* appends to the arguments of a record.
C10_ArgumentsConcatenated ==
    /\ [](\A c \in Slots :
            /\ IndexesOf(accumulated_tool_calls[c]) = IndexesOf(merged[c])
            /\ \A k \in 1..Len(accumulated_tool_calls[c]) :
                  accumulated_tool_calls[c][k].function.arguments =
                      ArgsFor(merged[c], accumulated_tool_calls[c][k].index))
    /\ [][\A c \in Slots :
            lpc'[c] # "create" =>
                \A k \in 1..Len(accumulated_tool_calls[c]) :
                    /\ k <= Len(accumulated_tool_calls'[c])
                    /\ accumulated_tool_calls'[c][k].index =
                          accumulated_tool_calls[c][k].index
                    /\ IsPrefix(accumulated_tool_calls[c][k].function.arguments,
                                accumulated_tool_calls'[c][k].function.arguments)]_vars

\* Index 0 got "x" then "y" with a fragment of index 1 between them.
C10_Witness ==
    /\ Len(merged[1]) = 3
    /\ merged[1][2].index = 1
    /\ Len(accumulated_tool_calls[1]) = 2
    /\ accumulated_tool_calls[1][1].function.arguments = <<"x", "y">>
    /\ accumulated_tool_calls[1][2].function.arguments = <<"x">>

\* C11: after a connection or rate-limit fault raised while the stream was
\* iterated and text deltas had been accumulated, an item the call has
\* yielded is that accumulated text.
C11_PartialTextYielded ==
    \A c \in Slots :
        /\ outcome[c] \in {"connection", "ratelimit"}
        /\ stream[c] # "none"
        /\ final_text[c] # <<>>
        => \E n \in 1..Len(yielded[c]) :
              yielded[c][n].kind = "text" /\ yielded[c][n].text = final_text[c]

\* The call of slot c has yielded the error string of a connection or
\* rate-limit fault.
HasErrorItem(c) ==
    \E n \in 1..Len(yielded[c]) :
        yielded[c][n].kind \in {"error_connection", "error_ratelimit"}

\* C12: a call that met a connection or rate-limit fault, at create() or
\* while iterating, has yielded exactly one item, the error string of that
\* fault and neither the capability sentinel nor tool calls; the fault is
\* not raised to the consumer: once the consumer resumes it the call goes
\* through its finally block and ends, with another outcome than the
\* handled fault only if the await of stream.close() was interrupted.
C12_FaultYieldsErrorString ==
    /\ [](\A c \in Slots :
            /\ outcome[c] \in {"connection", "ratelimit"} =>
                  /\ Len(yielded[c]) = 1
                  /\ yielded[c][1].kind =
                        (IF outcome[c] = "connection" THEN "error_connection"
                         ELSE "error_ratelimit")
            /\ HasErrorItem(c) =>
                  /\ lpc[c] \in {"yielded", "closing", "done"}
                  /\ Len(yielded[c]) = 1
                  /\ yielded[c][1].tools = <<>>
                  /\ \/ outcome[c] \in {"connection", "ratelimit"}
                     \/ lpc[c] = "done" /\ stream[c] = "open")
    /\ [][\A c \in Slots :
            outcome[c] \in {"connection", "ratelimit"} /\ lpc'[c] # "create" =>
                /\ yielded'[c] = yielded[c]
                /\ lpc'[c] \in {lpc[c], "closing", "done"}
                /\ outcome'[c] = outcome[c] \/ lpc[c] = "closing"]_vars

\* A rate-limit fault met after tool-call fragments and text had come: the
\* call has ended having yielded its one error string.
C12_Witness ==
    /\ outcome[1] = "ratelimit"
    /\ lpc[1] = "done"
    /\ in_tool_call[1]
    /\ final_text[1] # <<>>
    /\ Len(yielded[1]) = 1
    /\ yielded[1][1].kind = "error_ratelimit"

\* C13: stream.close() is called only in the finally block and at most
\* once, and a call that has ended has closed the stream create() gave it,
\* and has called no close if create() gave none.
C13_StreamClosedOnce ==
    \A c \in Slots :
        /\ closes[c] <= 1
        /\ lpc[c] \in {"idle", "create"} => stream[c] = "none" /\ closes[c] = 0
        /\ lpc[c] \in {"iter", "yielded"} /\ stream[c] # "none" =>
              stream[c] = "open" /\ closes[c] = 0
        /\ lpc[c] = "closing" => stream[c] = "open" /\ closes[c] = 1
        /\ lpc[c] = "done" =>
              \/ stream[c] = "closed" /\ closes[c] = 1
              \/ stream[c] = "none" /\ closes[c] = 0 /\ delivered[c] = <<>>

====
